---- MODULE Spec2Model ----
(***************************************************************************)
(* Request lifecycle of server.js: the admission counter of                *)
(* POST /generate-card, makeOpenAIRequest with its AbortController timer,  *)
(* the provider exchange, response validation and the error-to-status      *)
(* mapping.  Strings that the code inspects with String.includes are       *)
(* tuples of characters, so that a substring test is computed.             *)
(***************************************************************************)
EXTENDS Integers, Sequences, FiniteSets, TLC

\* ---------------------------------------------------------------- bounds
\* number of POST /generate-card requests that arrive
NumReqs == 2
\* granularity of the passage of time, in milliseconds
TickStep == 30000
\* a provider exchange is followed for at most this many milliseconds
MaxElapsed == 40000

\* ------------------------------------------------------ program constants
maxConcurrentRequests == 1
MAX_RETRIES == 3
TIMEOUT_MS == 30000
RETRY_AFTER == 3600
RECYCLE_MS == 60000
GRACE_MS == 5000

Reqs == 1..NumReqs

\* ---------------------------------------------------------------- strings
\* "Server busy"
StrServerBusy ==
    <<"S", "e", "r", "v", "e", "r", " ", "b", "u", "s", "y">>
\* "Too many concurrent requests. Please try again in a few seconds."
StrBusyDetails ==
    <<"T", "o", "o", " ", "m", "a", "n", "y", " ", "c", "o", "n", "c", "u", "r", "r", "e", "n", "t", " ", "r", "e", "q", "u", "e", "s", "t", "s", ".", " ", "P", "l", "e", "a", "s", "e", " ", "t", "r", "y", " ", "a", "g", "a", "i", "n", " ", "i", "n", " ", "a", " ", "f", "e", "w", " ", "s", "e", "c", "o", "n", "d", "s", ".">>
\* "Description is required"
StrDescriptionRequired ==
    <<"D", "e", "s", "c", "r", "i", "p", "t", "i", "o", "n", " ", "i", "s", " ", "r", "e", "q", "u", "i", "r", "e", "d">>
\* "Rate limit exceeded"
StrRateLimitExceeded ==
    <<"R", "a", "t", "e", " ", "l", "i", "m", "i", "t", " ", "e", "x", "c", "e", "e", "d", "e", "d">>
\* "The AI service is currently at capacity. Please try again in about an hour."
StrRateLimitDetails ==
    <<"T", "h", "e", " ", "A", "I", " ", "s", "e", "r", "v", "i", "c", "e", " ", "i", "s", " ", "c", "u", "r", "r", "e", "n", "t", "l", "y", " ", "a", "t", " ", "c", "a", "p", "a", "c", "i", "t", "y", ".", " ", "P", "l", "e", "a", "s", "e", " ", "t", "r", "y", " ", "a", "g", "a", "i", "n", " ", "i", "n", " ", "a", "b", "o", "u", "t", " ", "a", "n", " ", "h", "o", "u", "r", ".">>
\* "timeout"
StrTimeout ==
    <<"t", "i", "m", "e", "o", "u", "t">>
\* "Request timed out. Please try again."
StrTimedOutUser ==
    <<"R", "e", "q", "u", "e", "s", "t", " ", "t", "i", "m", "e", "d", " ", "o", "u", "t", ".", " ", "P", "l", "e", "a", "s", "e", " ", "t", "r", "y", " ", "a", "g", "a", "i", "n", ".">>
\* "An error occurred while generating the card. Please try again."
StrGenericUser ==
    <<"A", "n", " ", "e", "r", "r", "o", "r", " ", "o", "c", "c", "u", "r", "r", "e", "d", " ", "w", "h", "i", "l", "e", " ", "g", "e", "n", "e", "r", "a", "t", "i", "n", "g", " ", "t", "h", "e", " ", "c", "a", "r", "d", ".", " ", "P", "l", "e", "a", "s", "e", " ", "t", "r", "y", " ", "a", "g", "a", "i", "n", ".">>
\* "OpenAI API key is not configured"
StrKeyNotConfigured ==
    <<"O", "p", "e", "n", "A", "I", " ", "A", "P", "I", " ", "k", "e", "y", " ", "i", "s", " ", "n", "o", "t", " ", "c", "o", "n", "f", "i", "g", "u", "r", "e", "d">>
\* "OpenAI API request failed"
StrRequestFailed ==
    <<"O", "p", "e", "n", "A", "I", " ", "A", "P", "I", " ", "r", "e", "q", "u", "e", "s", "t", " ", "f", "a", "i", "l", "e", "d">>
\* "Invalid response from OpenAI"
StrInvalidResponse ==
    <<"I", "n", "v", "a", "l", "i", "d", " ", "r", "e", "s", "p", "o", "n", "s", "e", " ", "f", "r", "o", "m", " ", "O", "p", "e", "n", "A", "I">>
\* "Invalid Adaptive Card format"
StrInvalidCard ==
    <<"I", "n", "v", "a", "l", "i", "d", " ", "A", "d", "a", "p", "t", "i", "v", "e", " ", "C", "a", "r", "d", " ", "f", "o", "r", "m", "a", "t">>
\* "Request timed out"
StrRequestTimedOut ==
    <<"R", "e", "q", "u", "e", "s", "t", " ", "t", "i", "m", "e", "d", " ", "o", "u", "t">>
\* "The user aborted a request."
StrUserAborted ==
    <<"T", "h", "e", " ", "u", "s", "e", "r", " ", "a", "b", "o", "r", "t", "e", "d", " ", "a", " ", "r", "e", "q", "u", "e", "s", "t", ".">>
\* "request to https://api.openai.com/v1/chat/completions failed, reason: socket hang up"
StrSocketHangUp ==
    <<"r", "e", "q", "u", "e", "s", "t", " ", "t", "o", " ", "h", "t", "t", "p", "s", ":", "/", "/", "a", "p", "i", ".", "o", "p", "e", "n", "a", "i", ".", "c", "o", "m", "/", "v", "1", "/", "c", "h", "a", "t", "/", "c", "o", "m", "p", "l", "e", "t", "i", "o", "n", "s", " ", "f", "a", "i", "l", "e", "d", ",", " ", "r", "e", "a", "s", "o", "n", ":", " ", "s", "o", "c", "k", "e", "t", " ", "h", "a", "n", "g", " ", "u", "p">>
\* "request to https://api.openai.com/v1/chat/completions failed, reason: Socket timeout"
StrSocketTimeout ==
    <<"r", "e", "q", "u", "e", "s", "t", " ", "t", "o", " ", "h", "t", "t", "p", "s", ":", "/", "/", "a", "p", "i", ".", "o", "p", "e", "n", "a", "i", ".", "c", "o", "m", "/", "v", "1", "/", "c", "h", "a", "t", "/", "c", "o", "m", "p", "l", "e", "t", "i", "o", "n", "s", " ", "f", "a", "i", "l", "e", "d", ",", " ", "r", "e", "a", "s", "o", "n", ":", " ", "S", "o", "c", "k", "e", "t", " ", "t", "i", "m", "e", "o", "u", "t">>
\* "invalid json response body at https://api.openai.com/v1/chat/completions reason: Unexpected end of JSON input"
StrInvalidJsonBody ==
    <<"i", "n", "v", "a", "l", "i", "d", " ", "j", "s", "o", "n", " ", "r", "e", "s", "p", "o", "n", "s", "e", " ", "b", "o", "d", "y", " ", "a", "t", " ", "h", "t", "t", "p", "s", ":", "/", "/", "a", "p", "i", ".", "o", "p", "e", "n", "a", "i", ".", "c", "o", "m", "/", "v", "1", "/", "c", "h", "a", "t", "/", "c", "o", "m", "p", "l", "e", "t", "i", "o", "n", "s", " ", "r", "e", "a", "s", "o", "n", ":", " ", "U", "n", "e", "x", "p", "e", "c", "t", "e", "d", " ", "e", "n", "d", " ", "o", "f", " ", "J", "S", "O", "N", " ", "i", "n", "p", "u", "t">>
\* "Unexpected token h in JSON at position 0"
StrUnexpectedTokenOld ==
    <<"U", "n", "e", "x", "p", "e", "c", "t", "e", "d", " ", "t", "o", "k", "e", "n", " ", "h", " ", "i", "n", " ", "J", "S", "O", "N", " ", "a", "t", " ", "p", "o", "s", "i", "t", "i", "o", "n", " ", "0">>
\* "Unexpected token 'h', "hello" is not valid JSON"
StrUnexpectedTokenNew ==
    <<"U", "n", "e", "x", "p", "e", "c", "t", "e", "d", " ", "t", "o", "k", "e", "n", " ", "'", "h", "'", ",", " ", "\"", "h", "e", "l", "l", "o", "\"", " ", "i", "s", " ", "n", "o", "t", " ", "v", "a", "l", "i", "d", " ", "J", "S", "O", "N">>
\* "Cannot read properties of null (reading 'type')"
StrNullType ==
    <<"C", "a", "n", "n", "o", "t", " ", "r", "e", "a", "d", " ", "p", "r", "o", "p", "e", "r", "t", "i", "e", "s", " ", "o", "f", " ", "n", "u", "l", "l", " ", "(", "r", "e", "a", "d", "i", "n", "g", " ", "'", "t", "y", "p", "e", "'", ")">>
\* "a weather widget"
StrWeatherWidget ==
    <<"a", " ", "w", "e", "a", "t", "h", "e", "r", " ", "w", "i", "d", "g", "e", "t">>
\* "rate limit"
StrRateLimitLower ==
    <<"r", "a", "t", "e", " ", "l", "i", "m", "i", "t">>
\* "The server had an error while processing your request"
StrProvServerError ==
    <<"T", "h", "e", " ", "s", "e", "r", "v", "e", "r", " ", "h", "a", "d", " ", "a", "n", " ", "e", "r", "r", "o", "r", " ", "w", "h", "i", "l", "e", " ", "p", "r", "o", "c", "e", "s", "s", "i", "n", "g", " ", "y", "o", "u", "r", " ", "r", "e", "q", "u", "e", "s", "t">>
\* "You exceeded your current quota"
StrProvQuota ==
    <<"Y", "o", "u", " ", "e", "x", "c", "e", "e", "d", "e", "d", " ", "y", "o", "u", "r", " ", "c", "u", "r", "r", "e", "n", "t", " ", "q", "u", "o", "t", "a">>
\* "You hit the rate limit for requests"
StrProvRate ==
    <<"Y", "o", "u", " ", "h", "i", "t", " ", "t", "h", "e", " ", "r", "a", "t", "e", " ", "l", "i", "m", "i", "t", " ", "f", "o", "r", " ", "r", "e", "q", "u", "e", "s", "t", "s">>

\* "Unexpected token i in JSON at position 1"
StrUnexpectedTimeoutOld ==
    <<"U", "n", "e", "x", "p", "e", "c", "t", "e", "d", " ", "t", "o", "k", "e", "n", " ", "i", " ", "i", "n", " ", "J", "S", "O", "N", " ", "a", "t", " ", "p", "o", "s", "i", "t", "i", "o", "n", " ", "1">>
\* "Unexpected token 'i', "timeout" is not valid JSON"
StrUnexpectedTimeoutNew ==
    <<"U", "n", "e", "x", "p", "e", "c", "t", "e", "d", " ", "t", "o", "k", "e", "n", " ", "'", "i", "'", ",", " ", "\"", "t", "i", "m", "e", "o", "u", "t", "\"", " ", "i", "s", " ", "n", "o", "t", " ", "v", "a", "l", "i", "d", " ", "J", "S", "O", "N">>
\* the text that begins every frame of a stack trace
StrStackFrame ==
    <<"\n", " ", " ", " ", " ", "a", "t", " ">>

\* message contents a provider can return in a 2xx body
\* timeout
CntTimeout ==
    <<"t", "i", "m", "e", "o", "u", "t">>
\* hello
CntHello ==
    <<"h", "e", "l", "l", "o">>
\* {"type":"AdaptiveCard","body":[]}
CntCard ==
    <<"{", "\"", "t", "y", "p", "e", "\"", ":", "\"", "A", "d", "a", "p", "t", "i", "v", "e", "C", "a", "r", "d", "\"", ",", "\"", "b", "o", "d", "y", "\"", ":", "[", "]", "}">>
\* {"body":[]}
CntNoType ==
    <<"{", "\"", "b", "o", "d", "y", "\"", ":", "[", "]", "}">>
\* {"type":"Card","body":[]}
CntWrongType ==
    <<"{", "\"", "t", "y", "p", "e", "\"", ":", "\"", "C", "a", "r", "d", "\"", ",", "\"", "b", "o", "d", "y", "\"", ":", "[", "]", "}">>
\* null
CntNull ==
    <<"n", "u", "l", "l">>

\* ----------------------------------------------------------------- values
\* a JavaScript value that is either undefined or a string
Undefined == [k |-> "undefined", s |-> <<>>]
Str(t) == [k |-> "string", s |-> t]

\* JavaScript truthiness of such a value: undefined and '' are falsy
Falsy(v) == v.k = "undefined" \/ v.s = <<>>

\* String.prototype.includes
Includes(s, sub) ==
    \E i \in 0..(Len(s) - Len(sub)) : SubSeq(s, i + 1, i + Len(sub)) = sub

\* an Error object: name, message and the ad-hoc fields the code attaches
Err(name, message) ==
    [name |-> name, message |-> message, isRateLimit |-> FALSE,
     retryAfter |-> 0, status |-> 0]
NoError == Err("none", <<>>)

\* the parsed card: its type field and the rest of the object, kept opaque
Obj(type, rest) == [kind |-> "object", type |-> type, rest |-> rest]
JsNull == [kind |-> "null", type |-> Undefined, rest |-> ""]
NoCard == [kind |-> "none", type |-> Undefined, rest |-> ""]
StrAdaptiveCard == <<"A", "d", "a", "p", "t", "i", "v", "e", "C", "a", "r", "d">>
StrCard == <<"C", "a", "r", "d">>

\* an HTTP response sent to the caller; retryAfter = 0 is an absent field
ErrorBody(status, error, details, retryAfter) ==
    [status |-> status, error |-> error, details |-> details,
     retryAfter |-> retryAfter, card |-> NoCard]
\* variant of the success response: the card is wrapped in another object
CardBodyWrapped(card) ==
    [status |-> 200, error |-> <<>>, details |-> <<>>, retryAfter |-> 0,
     card |-> Obj(Undefined, "card")]
CardBody(card) ==
    [status |-> 200, error |-> <<>>, details |-> <<>>, retryAfter |-> 0,
     card |-> card]

\* JSON.parse on the contents above: which parse, and to what value
JSONParseOk(c) == c \in {CntCard, CntNoType, CntWrongType, CntNull}
JSONParseValue(c) ==
    CASE c = CntCard -> Obj(Str(StrAdaptiveCard), "body:[]")
      [] c = CntNoType -> Obj(Undefined, "body:[]")
      [] c = CntWrongType -> Obj(Str(StrCard), "body:[]")
      [] OTHER -> JsNull
\* the SyntaxError of JSON.parse; its text depends on the engine version
JSONParseErrors(c) ==
    IF c = CntTimeout
    THEN {Err("SyntaxError", StrUnexpectedTimeoutOld),
          Err("SyntaxError", StrUnexpectedTimeoutNew)}
    ELSE {Err("SyntaxError", StrUnexpectedTokenOld),
          Err("SyntaxError", StrUnexpectedTokenNew)}

\* ------------------------------------------------------ provider's inputs
\* the error object of a non-2xx provider body: type and message
ProvBody(type, message) == [type |-> type, message |-> message]
NoProvBody == ProvBody("", <<>>)
ProvBodies ==
    {ProvBody("server_error", StrProvServerError),
     ProvBody("resource_exhausted", StrProvQuota),
     ProvBody("requests", StrProvRate)}
Statuses == {200, 429, 500}
Ok(status) == status >= 200 /\ status <= 299

\* a 2xx body: whether it is JSON at all, and choices[0].message.content
Data(valid, content) == [valid |-> valid, content |-> content]
Bodies ==
    {Data(FALSE, Undefined), Data(TRUE, Undefined), Data(TRUE, Str(<<>>))}
    \cup {Data(TRUE, Str(c)) :
            c \in {CntHello, CntTimeout, CntCard, CntNoType, CntWrongType,
                   CntNull}}

\* errors with which fetch, or the reading of the body, can reject
NetErrors ==
    {Err("FetchError", StrSocketHangUp), Err("FetchError", StrSocketTimeout)}

\* the bodies of POST /generate-card: description absent, empty, or a text
Descriptions == {Undefined, Str(<<>>), Str(StrWeatherWidget)}

\* ------------------------------------------------- the code, as operators
\* variants of the admission test: off by one, and absent
BusyOffByOne(n) == n > maxConcurrentRequests
BusyNever(n) == FALSE

\* the admission test of the handler
Busy(n) == n >= maxConcurrentRequests

\* the response to a request that is not admitted
BusyResponse == ErrorBody(429, StrServerBusy, StrBusyDetails, 0)

\* the handler's test of the description
MissingDescription(description) == Falsy(description)

\* variant of the credential test: the credential is never checked
KeyMissingNever(key) == FALSE

\* the credential test of makeOpenAIRequest
KeyMissing(key) == ~key

\* variant of the error for a response that is not ok: 429 is not tagged
NotOkErrorUntagged(status) ==
    [name |-> "Error", message |-> StrRequestFailed, isRateLimit |-> FALSE,
     retryAfter |-> 0, status |-> status]

\* the error thrown for a provider response that is not ok
NotOkError(status) ==
    [name |-> "Error", message |-> StrRequestFailed,
     isRateLimit |-> (status = 429),
     retryAfter |-> IF status = 429 THEN RETRY_AFTER ELSE 0,
     status |-> status]

\* the body-based classification of the retrying variant of the service
BodyIndicatesRateLimit(b) ==
    b.type = "resource_exhausted" \/ Includes(b.message, StrRateLimitLower)

\* what makeOpenAIRequest does with a 2xx body once it is read: the set of
\* outcomes, each an error thrown or a card returned
Validate(data) ==
    IF ~data.valid
    THEN {[err |-> Err("FetchError", StrInvalidJsonBody), card |-> NoCard]}
    ELSE IF Falsy(data.content)
    THEN {[err |-> Err("Error", StrInvalidResponse), card |-> NoCard]}
    ELSE IF ~JSONParseOk(data.content.s)
    THEN {[err |-> e, card |-> NoCard] : e \in JSONParseErrors(data.content.s)}
    ELSE LET cardJson == JSONParseValue(data.content.s) IN
         IF cardJson.kind = "null"
         THEN {[err |-> Err("TypeError", StrNullType), card |-> NoCard]}
         ELSE IF Falsy(cardJson.type) \/ cardJson.type # Str(StrAdaptiveCard)
         THEN {[err |-> Err("Error", StrInvalidCard), card |-> NoCard]}
         ELSE {[err |-> NoError, card |-> cardJson]}

\* the catch block of makeOpenAIRequest
MakeCatch(error) ==
    IF error.name = "AbortError" THEN Err("Error", StrRequestTimedOut)
    ELSE error

\* the test the handler's catch block applies to the message
IsTimeoutMessage(message) == Includes(message, StrTimeout)

\* the catch block of the handler: the response for a thrown error
CatchResponse(error) ==
    IF error.isRateLimit
    THEN ErrorBody(429, StrRateLimitExceeded, StrRateLimitDetails,
                   IF error.retryAfter # 0 THEN error.retryAfter
                   ELSE RETRY_AFTER)
    ELSE ErrorBody(IF IsTimeoutMessage(error.message) THEN 504 ELSE 500,
                   IF IsTimeoutMessage(error.message) THEN StrTimedOutUser
                   ELSE IF error.message # <<>> THEN error.message
                   ELSE StrGenericUser,
                   error.message, 0)

\* variant of the handler's responses: the rate-limit branch of the catch
\* block does not return, and the generic response is sent after it
ResponsesNoReturn(error, card) ==
    IF error = NoError THEN <<CardBody(card)>>
    ELSE IF error.isRateLimit
    THEN <<CatchResponse(error),
           ErrorBody(500, error.message, error.message, 0)>>
    ELSE <<CatchResponse(error)>>

\* the responses the handler sends when its try block has ended: the card,
\* or the one response of the catch block
Responses(error, card) ==
    IF error = NoError THEN <<CardBody(card)>> ELSE <<CatchResponse(error)>>

\* variant of the retry decision: a rate-limit failure is retried
ShouldRetryRateLimit(error, retryCount) ==
    error.isRateLimit /\ retryCount < MAX_RETRIES

\* whether makeOpenAIRequest calls itself again after a failure: its catch
\* block rethrows every error, and retryCount is only logged
ShouldRetry(error, retryCount) == FALSE

\* variant of clearTimeout: the timer is left armed
ClearTimerNot(c) == c

\* clearTimeout(timeoutId) on the state of a call
ClearTimer(c) == [c EXCEPT !.timerArmed = FALSE, !.timerLeft = 0]

\* variant of the finally block: the slot is not released
FinallySkip(n) == n

\* the finally block of the handler
Finally(n) == n - 1

\* ------------------------------------------------------------------ state
VARIABLES
    activeRequests,  \* the process-wide counter
    hasKey,          \* whether process.env.OPENAI_API_KEY is set
    pc,              \* where each request's handler is
    reqBody,         \* the description each request arrived with
    call,            \* each request's makeOpenAIRequest: timer, controller,
                     \* outbound exchange
    provider,        \* the provider response each request's fetch received
    thrown,          \* the error the handler's catch block caught, if any
    resp,            \* the HTTP responses sent for each request, in order
    hist,            \* per request: admission, counter before and after,
                     \* number of decrements, order of admission and of
                     \* completion
    agent            \* the timers of the keep-alive agent's recycling

vars == <<activeRequests, hasKey, pc, reqBody, call, provider, thrown, resp,
          hist, agent>>

NoCall ==
    [invocations |-> 0, fetches |-> 0, timerArmed |-> FALSE, timerLeft |-> 0,
     aborted |-> FALSE, net |-> "none", elapsed |-> 0, agent |-> "none",
     killed |-> FALSE]
NoProvider ==
    [status |-> 0, body |-> NoProvBody, read |-> FALSE,
     data |-> Data(FALSE, Undefined)]
IdleAgent ==
    [intervalLeft |-> RECYCLE_MS, graceArmed |-> FALSE, graceLeft |-> 0]
NoHist == [admitted |-> FALSE, rejected |-> FALSE, before |-> 0, after |-> 0,
           releases |-> 0, admitSeq |-> 0, doneSeq |-> 0]

Init ==
    /\ activeRequests = 0
    /\ hasKey \in BOOLEAN
    /\ pc = [r \in Reqs |-> "idle"]
    /\ reqBody = [r \in Reqs |-> Undefined]
    /\ call = [r \in Reqs |-> NoCall]
    /\ provider = [r \in Reqs |-> NoProvider]
    /\ thrown = [r \in Reqs |-> NoError]
    /\ resp = [r \in Reqs |-> <<>>]
    /\ hist = [r \in Reqs |-> NoHist]
    /\ agent = IdleAgent

\* a call refers to the agent it was started with for as long as the
\* handler awaits it.  Of the agents only three things matter to a call:
\* "current" is the value of keepaliveAgent, "old" is the agent replaced at
\* the last recycling and not yet destroyed (the grace period is shorter
\* than the recycling period, so there is at most one), "destroyed" is an
\* agent whose destroy() has run.

\* the recycling runs from the start of the process, and requests arrive
\* at any time.  Its timers are followed only while some awaited call
\* refers to an agent that can still be destroyed: when the first such
\* call is started, the time left to the next recycling is any of Phases,
\* and when the last one has ended the timers are those of Init.
Followed(cs) == \E r \in Reqs : cs[r].agent \in {"current", "old"}
Phases == {k * TickStep : k \in 0..(RECYCLE_MS \div TickStep)}
AgentNext(csOld, csNew) ==
    IF ~Followed(csNew) THEN {IdleAgent}
    ELSE IF ~Followed(csOld)
    THEN {[IdleAgent EXCEPT !.intervalLeft = ph] : ph \in Phases}
    ELSE {agent}

\* the outbound exchange of r is in flight: issued and neither consumed,
\* failed, aborted nor closed
InFlight(r) == call[r].net \in {"pending", "streaming"}

\* the try block of request r's handler ends with error thrown (or with
\* NoError and the card makeOpenAIRequest returned) while the counter is n:
\* the handler sends the card or the catch block's response, and the
\* finally block releases the slot.  c and h are the call's state and the
\* request's history at that point; the timer is cleared by the finally
\* block of makeOpenAIRequest.  The handler's completions are numbered in
\* the order in which they happen.
Settle(r, n, c, h, error, card) ==
    IF error # NoError /\ c.invocations > 0
       /\ ShouldRetry(error, c.invocations - 1)
    THEN /\ call' = [call EXCEPT ![r] =
                       [c EXCEPT !.invocations = @ + 1, !.fetches = @ + 1,
                                 !.timerArmed = TRUE,
                                 !.timerLeft = TIMEOUT_MS,
                                 !.net = "pending", !.agent = "current"]]
         /\ activeRequests' = n
         /\ hist' = [hist EXCEPT ![r] = h]
         /\ pc' = [pc EXCEPT ![r] = "fetching"]
         /\ UNCHANGED <<thrown, resp>>
    ELSE /\ thrown' = [thrown EXCEPT ![r] = error]
         /\ resp' = [resp EXCEPT ![r] = @ \o Responses(error, card)]
         /\ activeRequests' = Finally(n)
         /\ call' = [call EXCEPT ![r] =
                       [ClearTimer(c) EXCEPT !.elapsed = 0,
                                             !.agent = "none"]]
         /\ hist' = [hist EXCEPT ![r] =
                       [h EXCEPT !.after = Finally(n), !.releases = @ + 1,
                                 !.doneSeq = 1 + Cardinality(
                                    {q \in Reqs : hist[q].admitted
                                                   /\ pc[q] = "done"})]]
         /\ pc' = [pc EXCEPT ![r] = "done"]

\* --------------------------------------------------------------- actions
\* POST /generate-card arrives with a body: the handler runs up to its
\* first suspension, which is the fetch; every path that does not reach
\* the fetch runs to its end in this step
Arrive(r, description) ==
    /\ pc[r] = "idle"
    /\ reqBody' = [reqBody EXCEPT ![r] = description]
    /\ IF Busy(activeRequests)
       THEN /\ resp' = [resp EXCEPT ![r] = Append(@, BusyResponse)]
            /\ hist' = [hist EXCEPT ![r] =
                          [@ EXCEPT !.rejected = TRUE,
                                    !.before = activeRequests,
                                    !.after = activeRequests]]
            /\ pc' = [pc EXCEPT ![r] = "done"]
            /\ UNCHANGED <<activeRequests, call, thrown>>
       ELSE LET n == activeRequests + 1
                h == [hist[r] EXCEPT
                        !.admitted = TRUE,
                        !.before = activeRequests,
                        !.admitSeq = 1 + Cardinality(
                           {q \in Reqs : hist[q].admitted})]
                c == [call[r] EXCEPT !.invocations = @ + 1]
            IN  IF MissingDescription(description)
                THEN Settle(r, n, call[r], h,
                            Err("Error", StrDescriptionRequired), NoCard)
                ELSE IF KeyMissing(hasKey)
                THEN Settle(r, n, c, h,
                            MakeCatch(Err("Error", StrKeyNotConfigured)),
                            NoCard)
                ELSE /\ activeRequests' = n
                     /\ hist' = [hist EXCEPT ![r] = h]
                     /\ call' = [call EXCEPT ![r] =
                                   [c EXCEPT !.fetches = @ + 1,
                                             !.timerArmed = TRUE,
                                             !.timerLeft = TIMEOUT_MS,
                                             !.net = "pending",
                                             !.agent = "current"]]
                     /\ pc' = [pc EXCEPT ![r] = "fetching"]
                     /\ UNCHANGED <<thrown, resp>>
    /\ agent' \in AgentNext(call, call')
    /\ UNCHANGED <<hasKey, provider>>

\* the provider's response headers arrive and fetch resolves: the timer is
\* cleared; a response that is not ok is thrown at once, its body unread,
\* and a 2xx response has its body awaited
FetchResolve(r, status, body) ==
    /\ pc[r] = "fetching"
    /\ call[r].net = "pending"
    /\ provider' = [provider EXCEPT ![r] =
                      [@ EXCEPT !.status = status, !.body = body]]
    /\ IF ~Ok(status)
       THEN Settle(r, activeRequests,
                   [call[r] EXCEPT !.net = "streaming"], hist[r],
                   MakeCatch(NotOkError(status)), NoCard)
       ELSE /\ call' = [call EXCEPT ![r] =
                          [ClearTimer(@) EXCEPT !.net = "streaming"]]
            /\ pc' = [pc EXCEPT ![r] = "readingBody"]
            /\ UNCHANGED <<activeRequests, thrown, resp, hist>>
    /\ agent' \in AgentNext(call, call')
    /\ UNCHANGED <<hasKey, reqBody>>

\* fetch rejects with a network error before any response arrived
FetchReject(r, error) ==
    /\ pc[r] = "fetching"
    /\ call[r].net = "pending"
    /\ Settle(r, activeRequests, [call[r] EXCEPT !.net = "failed"], hist[r],
              MakeCatch(error), NoCard)
    /\ agent' \in AgentNext(call, call')
    /\ UNCHANGED <<hasKey, reqBody, provider>>

\* the 2xx body has arrived in full and response.json() settles; the rest
\* of makeOpenAIRequest and of the handler follows
BodyComplete(r, data) ==
    /\ pc[r] = "readingBody"
    /\ call[r].net = "streaming"
    /\ \E o \in Validate(data) :
          Settle(r, activeRequests, [call[r] EXCEPT !.net = "consumed"],
                 hist[r], MakeCatch(o.err), o.card)
    /\ provider' = [provider EXCEPT ![r] =
                      [@ EXCEPT !.read = TRUE, !.data = data]]
    /\ agent' \in AgentNext(call, call')
    /\ UNCHANGED <<hasKey, reqBody>>

\* the connection fails while the 2xx body is being read
BodyFail(r, error) ==
    /\ pc[r] = "readingBody"
    /\ call[r].net = "streaming"
    /\ Settle(r, activeRequests, [call[r] EXCEPT !.net = "failed"], hist[r],
              MakeCatch(error), NoCard)
    /\ agent' \in AgentNext(call, call')
    /\ UNCHANGED <<hasKey, reqBody, provider>>

\* the 30 s timer of r's makeOpenAIRequest fires: controller.abort(); an
\* exchange still in progress is cancelled and rejects with AbortError
TimerFire(r) ==
    /\ call[r].timerArmed
    /\ call[r].timerLeft = 0
    /\ IF pc[r] \in {"fetching", "readingBody"}
       THEN Settle(r, activeRequests,
                   [call[r] EXCEPT !.aborted = TRUE, !.timerArmed = FALSE,
                                   !.net = "aborted"],
                   hist[r], MakeCatch(Err("AbortError", StrUserAborted)),
                   NoCard)
       ELSE /\ call' = [call EXCEPT ![r] =
                          [@ EXCEPT !.aborted = TRUE, !.timerArmed = FALSE,
                                    !.net = IF InFlight(r) THEN "aborted"
                                            ELSE @]]
            /\ UNCHANGED <<activeRequests, thrown, resp, hist, pc>>
    /\ agent' \in AgentNext(call, call')
    /\ UNCHANGED <<hasKey, reqBody, provider>>

\* an exchange whose body the code left unread ends: the provider finishes
\* and closes it, or the socket is destroyed with its agent
ProviderClose(r) ==
    /\ pc[r] = "done"
    /\ call[r].net = "streaming"
    /\ call' = [call EXCEPT ![r].net = "closed"]
    /\ UNCHANGED agent
    /\ UNCHANGED <<activeRequests, hasKey, pc, reqBody, provider, thrown,
                   resp, hist>>

\* the setInterval callback: keepaliveAgent is replaced by a new agent and
\* the destruction of the old one is scheduled after the grace period; the
\* interval re-arms itself
AgentSwap ==
    /\ agent.intervalLeft = 0
    /\ agent' = [intervalLeft |-> RECYCLE_MS, graceArmed |-> TRUE,
                 graceLeft |-> GRACE_MS]
    /\ call' = [r \in Reqs |->
                  [call[r] EXCEPT !.agent = IF @ = "current" THEN "old"
                                            ELSE @]]
    /\ UNCHANGED <<activeRequests, hasKey, pc, reqBody, provider, thrown,
                   resp, hist>>

\* the setTimeout callback of the recycling: oldAgent.destroy() destroys
\* every socket of the old agent, those of exchanges in progress included;
\* killed records that the handler was still awaiting the call
AgentDestroy ==
    /\ agent.graceArmed
    /\ agent.graceLeft = 0
    /\ call' = [r \in Reqs |->
                  IF call[r].agent # "old" THEN call[r]
                  ELSE [call[r] EXCEPT
                          !.agent = "destroyed",
                          !.net = IF InFlight(r) THEN "destroyed" ELSE @,
                          !.killed = InFlight(r)
                                     /\ pc[r] \in {"fetching",
                                                   "readingBody"}]]
    /\ agent' = IF Followed(call') THEN [agent EXCEPT !.graceArmed = FALSE]
                ELSE IdleAgent
    /\ UNCHANGED <<activeRequests, hasKey, pc, reqBody, provider, thrown,
                   resp, hist>>

\* the destruction of its socket surfaces in a call that is awaited: fetch,
\* or the reading of the body, rejects
SocketDestroyed(r) ==
    /\ pc[r] \in {"fetching", "readingBody"}
    /\ call[r].net = "destroyed"
    /\ Settle(r, activeRequests, [call[r] EXCEPT !.net = "failed"], hist[r],
              MakeCatch(Err("FetchError", StrSocketHangUp)), NoCard)
    /\ agent' \in AgentNext(call, call')
    /\ UNCHANGED <<hasKey, reqBody, provider>>

\* time passes: by TickStep, or less when an armed timer expires sooner;
\* it does not pass an armed timer's expiry before the timer has fired
Waiting == {r \in Reqs : pc[r] \in {"fetching", "readingBody"}}
Armed == {r \in Reqs : call[r].timerArmed}
TimersLeft ==
    {call[r].timerLeft : r \in Armed}
    \cup (IF Followed(call) THEN {agent.intervalLeft} ELSE {})
    \cup (IF Followed(call) /\ agent.graceArmed THEN {agent.graceLeft}
          ELSE {})
MinLeft(S) == CHOOSE m \in S : \A x \in S : m <= x
Delta == IF TimersLeft # {} /\ MinLeft(TimersLeft) < TickStep
         THEN MinLeft(TimersLeft)
         ELSE TickStep
Tick ==
    /\ Waiting # {} \/ TimersLeft # {}
    /\ Delta > 0
    /\ call' = [r \in Reqs |->
                  [call[r] EXCEPT
                     !.timerLeft = IF call[r].timerArmed THEN @ - Delta
                                   ELSE @,
                     !.elapsed = IF r \notin Waiting THEN @
                                 ELSE IF @ + Delta > MaxElapsed
                                 THEN MaxElapsed ELSE @ + Delta]]
    /\ agent' = IF ~Followed(call) THEN agent
                ELSE [agent EXCEPT
                        !.intervalLeft = @ - Delta,
                        !.graceLeft = IF agent.graceArmed THEN @ - Delta
                                      ELSE @]
    /\ UNCHANGED <<activeRequests, hasKey, pc, reqBody, provider, thrown,
                   resp, hist>>

Next ==
    \/ \E r \in Reqs, d \in Descriptions : Arrive(r, d)
    \/ \E r \in Reqs, s \in Statuses :
          \E b \in IF Ok(s) THEN {NoProvBody} ELSE ProvBodies :
             FetchResolve(r, s, b)
    \/ \E r \in Reqs, e \in NetErrors : FetchReject(r, e)
    \/ \E r \in Reqs, d \in Bodies : BodyComplete(r, d)
    \/ \E r \in Reqs, e \in NetErrors : BodyFail(r, e)
    \/ \E r \in Reqs : TimerFire(r)
    \/ \E r \in Reqs : ProviderClose(r)
    \/ AgentSwap
    \/ AgentDestroy
    \/ \E r \in Reqs : SocketDestroyed(r)
    \/ Tick

Spec == Init /\ [][Next]_vars

\* timers fire and time passes; nothing is assumed of the provider or of
\* the arrival of requests
FairSpec ==
    /\ Spec
    /\ WF_vars(Tick)
    /\ WF_vars(AgentSwap)
    /\ WF_vars(AgentDestroy)
    /\ \A r \in Reqs : WF_vars(TimerFire(r))

\* ---------------------------------------------------------------- claims
Done(r) == pc[r] = "done"
Admitted(r) == hist[r].admitted
Rejected(r) == hist[r].rejected

\* C1: the counter activeRequests stays within 0..maxConcurrentRequests in
\* every reachable state, whatever the requests and their outcomes
CounterInRange ==
    activeRequests >= 0 /\ activeRequests <= maxConcurrentRequests

\* C1 witness: one admitted request has completed and released, another
\* holds the slot, at the upper end of the range
CounterInRangeWitness ==
    \E r1, r2 \in Reqs :
       /\ Done(r1) /\ Admitted(r1)
       /\ pc[r2] \in {"fetching", "readingBody"}
       /\ activeRequests = maxConcurrentRequests

\* C2: an admitted request decrements the counter exactly once, on
\* whichever path it ends, and not before it ends; a request rejected as
\* busy never decrements it; after a request the counter has the value it
\* had when the request arrived
ReleasedExactlyOnce ==
    \A r \in Reqs :
       /\ hist[r].releases <= 1
       /\ Admitted(r) /\ Done(r) =>
             hist[r].releases = 1 /\ hist[r].after = hist[r].before
       /\ Admitted(r) /\ ~Done(r) => hist[r].releases = 0
       /\ Rejected(r) =>
             hist[r].releases = 0 /\ hist[r].after = hist[r].before
       /\ ~Admitted(r) => hist[r].releases = 0

\* C2 witness: one admitted request ended in an error and another in
\* success, both released
ReleasedExactlyOnceWitness ==
    \E r1, r2 \in Reqs :
       /\ Done(r1) /\ Admitted(r1) /\ thrown[r1] # NoError
       /\ Done(r2) /\ Admitted(r2) /\ thrown[r2] = NoError
       /\ hist[r1].releases = 1 /\ hist[r2].releases = 1

\* C3: a request that arrives while the counter is at the limit is answered
\* at once with 429 'Server busy', never calls makeOpenAIRequest or the
\* provider, and leaves the counter as it was
BusyRejectedAtOnce ==
    \A r \in Reqs :
       pc[r] # "idle" /\ hist[r].before >= maxConcurrentRequests =>
          /\ Done(r)
          /\ Len(resp[r]) = 1
          /\ resp[r][1].status = 429
          /\ resp[r][1].error = StrServerBusy
          /\ call[r] = NoCall
          /\ hist[r].releases = 0
          /\ hist[r].after = hist[r].before

\* C3 witness: a request was rejected while another held the slot
BusyRejectedAtOnceWitness ==
    \E r1, r2 \in Reqs :
       /\ Rejected(r1) /\ hist[r1].before = maxConcurrentRequests
       /\ pc[r2] \in {"fetching", "readingBody"}

\* C4: at most one outbound provider exchange (from its issue until its
\* response is consumed, fails, is aborted or is closed) is in flight at
\* any instant
AtMostOneInFlight == Cardinality({r \in Reqs : InFlight(r)}) <= 1

\* C5: an admitted request with an empty or absent description never
\* reaches makeOpenAIRequest and is answered with HTTP 400
MissingDescriptionIs400 ==
    \A r \in Reqs :
       Done(r) /\ Admitted(r) /\ Falsy(reqBody[r]) =>
          /\ call[r].invocations = 0
          /\ call[r].fetches = 0
          /\ Len(resp[r]) = 1
          /\ resp[r][1].status = 400

\* C6: a provider call is never still unfinished after more than 30 s: at
\* 30 s it is aborted, fails with 'Request timed out', and no further call
\* is issued for the request
TimeoutBoundsCall ==
    \A r \in Reqs :
       /\ pc[r] \in {"fetching", "readingBody"} =>
             call[r].elapsed <= TIMEOUT_MS
       /\ call[r].aborted =>
             /\ Done(r)
             /\ thrown[r].message = StrRequestTimedOut
             /\ call[r].net = "aborted"
             /\ call[r].fetches = 1

\* C7: a request whose provider call was aborted by the timer is answered
\* with HTTP 504 and 'Request timed out. Please try again.'
TimeoutIs504 ==
    \A r \in Reqs :
       Done(r) /\ call[r].aborted =>
          /\ Len(resp[r]) = 1
          /\ resp[r][1].status = 504
          /\ resp[r][1].error = StrTimedOutUser

\* C8: a provider response with status 429 makes makeOpenAIRequest throw an
\* error tagged isRateLimit with retryAfter 3600, and the caller receives
\* HTTP 429 with retryAfter 3600
RateLimitIs429 ==
    \A r \in Reqs :
       provider[r].status = 429 =>
          /\ Done(r)
          /\ thrown[r].isRateLimit
          /\ thrown[r].retryAfter = 3600
          /\ Len(resp[r]) = 1
          /\ resp[r][1].status = 429
          /\ resp[r][1].retryAfter = 3600

\* C8 witness: an admitted request with a description and a credential
\* received status 429 from the provider
RateLimitIs429Witness ==
    \E r \in Reqs :
       /\ Done(r) /\ Admitted(r) /\ ~Falsy(reqBody[r]) /\ hasKey
       /\ provider[r].status = 429
       /\ resp[r][1].status = 429

\* C9: a provider response that is not 2xx is answered as a rate limit
\* (HTTP 429 with retryAfter) if its status is 429 or its error body
\* indicates quota or rate exhaustion, and with HTTP 500 otherwise
NonOkClassification ==
    \A r \in Reqs :
       Done(r) /\ provider[r].status # 0 /\ ~Ok(provider[r].status) =>
          /\ Len(resp[r]) = 1
          /\ IF provider[r].status = 429
                \/ BodyIndicatesRateLimit(provider[r].body)
             THEN resp[r][1].status = 429 /\ resp[r][1].retryAfter # 0
             ELSE resp[r][1].status = 500

\* C10: with the credential absent, an admitted request with a description
\* fails with the configuration error before any fetch is issued, is
\* answered with HTTP 500 after a single call of makeOpenAIRequest, and
\* its slot is released
MissingKeyIs500 ==
    \A r \in Reqs :
       pc[r] # "idle" /\ Admitted(r) /\ ~Falsy(reqBody[r]) /\ ~hasKey =>
          /\ Done(r)
          /\ thrown[r].message = StrKeyNotConfigured
          /\ call[r].invocations = 1
          /\ call[r].fetches = 0
          /\ call[r].net = "none"
          /\ Len(resp[r]) = 1
          /\ resp[r][1].status = 500
          /\ hist[r].releases = 1
          /\ activeRequests = 0

\* C10 witness: such a request has been answered
MissingKeyIs500Witness ==
    \E r \in Reqs :
       /\ Done(r) /\ Admitted(r) /\ ~Falsy(reqBody[r]) /\ ~hasKey
       /\ resp[r][1].status = 500

\* a 2xx body was read whose message content is missing, is not JSON, or
\* is JSON without the type 'AdaptiveCard'
Malformed(d) ==
    /\ d.valid
    /\ \/ Falsy(d.content)
       \/ ~JSONParseOk(d.content.s)
       \/ JSONParseValue(d.content.s).type # Str(StrAdaptiveCard)

\* C11: a 2xx provider response whose message content is missing, not
\* parseable, or not of type 'AdaptiveCard' is answered with HTTP 500 and
\* no card is sent
MalformedIs500 ==
    \A r \in Reqs :
       Done(r) /\ provider[r].read /\ Malformed(provider[r].data) =>
          /\ Len(resp[r]) = 1
          /\ resp[r][1].status = 500
          /\ resp[r][1].card = NoCard

\* C12: a 2xx provider response whose message content is
\* {"type":"AdaptiveCard","body":[]} is answered with HTTP 200 whose whole
\* body is the object parsed from that content
ValidCardReturned ==
    \A r \in Reqs :
       Done(r) /\ provider[r].read /\ provider[r].data.valid
       /\ provider[r].data.content = Str(CntCard) =>
          resp[r] = <<[status |-> 200, error |-> <<>>, details |-> <<>>,
                       retryAfter |-> 0,
                       card |-> [kind |-> "object",
                                 type |-> Str(StrAdaptiveCard),
                                 rest |-> "body:[]"]]>>

\* C12 witness: an admitted request with a description received that
\* content and was answered with 200
ValidCardReturnedWitness ==
    \E r \in Reqs :
       /\ Done(r) /\ Admitted(r) /\ reqBody[r] = Str(StrWeatherWidget)
       /\ provider[r].read /\ provider[r].data.content = Str(CntCard)
       /\ resp[r][1].status = 200

\* the text s shows a stack trace, or text of the provider's payload that
\* request r received
Leaks(s, r) ==
    \/ Includes(s, StrStackFrame)
    \/ /\ provider[r].read
       /\ ~Falsy(provider[r].data.content)
       /\ Includes(s, provider[r].data.content.s)
    \/ /\ provider[r].body.message # <<>>
       /\ Includes(s, provider[r].body.message)

\* C13: no error response carries a stack trace or raw provider payload
\* text in its error or details field
NoInternalDetail ==
    \A r \in Reqs : \A i \in 1..Len(resp[r]) :
       resp[r][i].status # 200 =>
          ~Leaks(resp[r][i].error, r) /\ ~Leaks(resp[r][i].details, r)

\* C14: every admitted request calls makeOpenAIRequest at most once and
\* issues at most one fetch; once it has failed nothing more is issued; a
\* rejected request issues none
AtMostOneCall ==
    \A r \in Reqs :
       /\ call[r].invocations <= 1
       /\ call[r].fetches <= 1
       /\ Done(r) => call[r].net # "pending"
       /\ Rejected(r) => call[r].fetches = 0

\* C14 witness: a request failed with a rate-limit response after one call
AtMostOneCallWitness ==
    \E r \in Reqs :
       /\ Done(r) /\ thrown[r].isRateLimit
       /\ call[r].invocations = 1 /\ call[r].fetches = 1

\* C15: admitted requests complete in the order in which they were
\* admitted, and rejected requests are in neither sequence
CompletionOrderIsAdmissionOrder ==
    \A r \in Reqs :
       /\ Admitted(r) /\ Done(r) => hist[r].doneSeq = hist[r].admitSeq
       /\ Rejected(r) => hist[r].admitSeq = 0 /\ hist[r].doneSeq = 0

\* C15 witness: two admitted requests have completed, and the second of
\* them went to the provider
CompletionOrderWitness ==
    \E r1, r2 \in Reqs :
       /\ Done(r1) /\ Done(r2)
       /\ hist[r1].admitSeq = 1 /\ hist[r2].admitSeq = 2
       /\ hist[r2].doneSeq = 2 /\ call[r2].fetches = 1

\* C16: if timers fire, every admitted request is eventually answered and
\* its slot released, whatever the provider does
AdmittedEventuallyDone ==
    \A r \in Reqs :
       Admitted(r) ~> (Done(r) /\ Len(resp[r]) = 1 /\ hist[r].releases = 1)

\* C17: the recycling never destroys an agent while a call started with it
\* is still awaited
NeverDestroyedInFlight == \A r \in Reqs : ~call[r].killed

\* C18: every request sends exactly one response: none before it ends, one
\* when it has ended, never two, and the slot is not released before the
\* response is sent
ExactlyOneResponse ==
    \A r \in Reqs :
       /\ Len(resp[r]) <= 1
       /\ Done(r) => Len(resp[r]) = 1
       /\ ~Done(r) => Len(resp[r]) = 0
       /\ hist[r].releases >= 1 => Len(resp[r]) = 1

\* C18 witness: one request was rejected as busy and the one that held the
\* slot left through the rate-limit return of the catch block
ExactlyOneResponseWitness ==
    \E r1, r2 \in Reqs :
       /\ Done(r1) /\ Rejected(r1)
       /\ Done(r2) /\ thrown[r2].isRateLimit /\ resp[r2][1].status = 429

\* C19: a call's timer is armed only while its own fetch is pending, so it
\* cannot fire after the call has returned or thrown, and an abort is
\* always the timeout of the call whose controller it is
TimerOwnedAndCleared ==
    \A r \in Reqs :
       /\ call[r].timerArmed => pc[r] = "fetching"
       /\ call[r].aborted =>
             /\ Done(r)
             /\ call[r].net = "aborted"
             /\ thrown[r].message = StrRequestTimedOut

\* C19 witness: one call ended otherwise than by its timer, which was
\* cleared, and another call was aborted by its own timer
TimerOwnedAndClearedWitness ==
    \E r1, r2 \in Reqs :
       /\ Done(r1) /\ call[r1].fetches = 1 /\ ~call[r1].aborted
       /\ ~call[r1].timerArmed
       /\ Done(r2) /\ call[r2].aborted
====
